---- MODULE Spec2Model ----
(***************************************************************************)
(* Model of the packaging flow of the AXI converter core                   *)
(* (axi_converter.py): main and its command line, generate_interface, the  *)
(* netlist and constraints post-processing, the Vivado packaging script    *)
(* built by generate_package, the GUI statements built by build_gui, the   *)
(* procedure proc_add_bus_clock, and two runs of the program on one        *)
(* package directory.                                                      *)
(*                                                                         *)
(* Text files are sequences of lines as readlines() returns them; a line   *)
(* is a sequence of characters that ends in "\n", except possibly the last *)
(* line of a file.  A file that may be missing is a sequence of length 0   *)
(* (missing) or 1 (its content).  Script statements are records            *)
(* [cmd, args, buses, maps]: the Tcl command, its arguments as strings,    *)
(* for proc_add_bus_clock the names joined by ":" in its bus argument and  *)
(* for proc_add_bus the pairs of its port map.                             *)
(***************************************************************************)
EXTENDS Integers, Sequences, FiniteSets, TLC

VARIABLES self, build_v, build_xdc, package, pc, error, vivado_log,
          dict_gui, gui_out, argv, exit_code, interfaces, tcl, run2,
          binding, core

vars == <<self, build_v, build_xdc, package, pc, error, vivado_log,
          dict_gui, gui_out, argv, exit_code, interfaces, tcl, run2,
          binding, core>>

\* what the steps of generate_package of the first run never change
aux == <<argv, exit_code, interfaces, run2, binding, core>>

(***************************************************************************)
(* Bounds of the model.                                                    *)
(***************************************************************************)
MaxNetlistLines == 2
MaxXdcLines == 2
MaxGroups == 2
MaxVars == 2
MaxOrder == 1
MaxResetLen == 2

(***************************************************************************)
(* Text                                                                    *)
(***************************************************************************)
Digit(d) == <<"0", "1", "2", "3", "4", "5", "6", "7", "8", "9">>[d + 1]

RECURSIVE IntChars(_)
\* str(n) of a non-negative integer, as "{}".format(n) renders it
IntChars(n) == IF n < 10 THEN <<Digit(n)>>
               ELSE IntChars(n \div 10) \o <<Digit(n % 10)>>

RECURSIVE IntStr(_)
\* the same conversion, as a string
IntStr(n) == IF n < 10 THEN Digit(n) ELSE IntStr(n \div 10) \o Digit(n % 10)

\* s[i..] starts with the characters of p
MatchAt(p, s, i) ==
    /\ i + Len(p) - 1 <= Len(s)
    /\ \A k \in 1..Len(p) : s[i + k - 1] = p[k]

\* re.search of a literal pattern: the pattern occurs somewhere in the line
SearchLiteral(p, s) == \E i \in 1..(Len(s) + 1) : MatchAt(p, s, i)

\* re.search of "^" followed by a literal: the line starts with the literal
SearchAnchored(p, s) == MatchAt(p, s, 1)

\* the pattern "^\);\n" of _netlist_post_processing, without its anchor
PortListEnd == <<")", ";", "\n">>

\* the pattern in lower case
ConstraintsMarkerLower == <<"d", "e", "s", "i", "g", "n", " ", "c", "o", "n", "s",
                            "t", "r", "a", "i", "n", "t", "s">>

\* the pattern of _constraints_post_processing
ConstraintsMarker == <<"D", "e", "s", "i", "g", "n", " ", "c", "o", "n", "s",
                       "t", "r", "a", "i", "n", "t", "s">>

NetlistMatch(line) == SearchAnchored(PortListEnd, line)

ConstraintsMatch(line) == SearchLiteral(ConstraintsMarker, line)

\* "parameter {} = {};\n".format(name, value)
ParameterLine(name, value) ==
    <<"p", "a", "r", "a", "m", "e", "t", "e", "r", " ">> \o name
        \o <<" ", "=", " ">> \o IntChars(value) \o <<";", "\n">>

N_address_width == <<"a", "d", "d", "r", "e", "s", "s", "_", "w", "i", "d", "t", "h">>
N_input_width == <<"i", "n", "p", "u", "t", "_", "w", "i", "d", "t", "h">>
N_output_width == <<"o", "u", "t", "p", "u", "t", "_", "w", "i", "d", "t", "h">>
N_user_width == <<"u", "s", "e", "r", "_", "w", "i", "d", "t", "h">>
N_reverse == <<"r", "e", "v", "e", "r", "s", "e">>

\* the five writes that follow the first match
InjectedLines(s) ==
    << ParameterLine(N_address_width, s.address_width),
       ParameterLine(N_input_width, s.input_width),
       ParameterLine(N_output_width, s.output_width),
       ParameterLine(N_user_width, s.user_width),
       ParameterLine(N_reverse, 0) >>

RECURSIVE NetlistLoopEveryMatch(_, _, _, _, _)
\* the loop without the test of Found: the lines follow every match
NetlistLoopEveryMatch(s, inline, i, Found, out) ==
    IF i > Len(inline) THEN out
    ELSE LET line == inline[i]
             m == NetlistMatch(line)
         IN IF m
            THEN NetlistLoopEveryMatch(s, inline, i + 1, TRUE,
                                       (out \o <<line>>) \o InjectedLines(s))
            ELSE NetlistLoopEveryMatch(s, inline, i + 1, Found, out \o <<line>>)

RECURSIVE NetlistLoopReplacesMarker(_, _, _, _, _)
\* the loop writing the parameter lines in place of the first matching line
NetlistLoopReplacesMarker(s, inline, i, Found, out) ==
    IF i > Len(inline) THEN out
    ELSE LET line == inline[i]
             m == NetlistMatch(line)
         IN IF m /\ ~Found
            THEN NetlistLoopReplacesMarker(s, inline, i + 1, TRUE,
                                           out \o InjectedLines(s))
            ELSE NetlistLoopReplacesMarker(s, inline, i + 1, Found,
                                           out \o <<line>>)

RECURSIVE NetlistLoop(_, _, _, _, _)
\* the loop over inline: i is the next line, Found the flag, out the lines
\* written so far
NetlistLoop(s, inline, i, Found, out) ==
    IF i > Len(inline) THEN out
    ELSE LET line == inline[i]
             m == NetlistMatch(line)
         IN IF m /\ ~Found
            THEN NetlistLoop(s, inline, i + 1, TRUE,
                             (out \o <<line>>) \o InjectedLines(s))
            ELSE NetlistLoop(s, inline, i + 1, Found, out \o <<line>>)

\* the lines _netlist_post_processing writes to outfile
netlist_post_processing(s, inline) == NetlistLoop(s, inline, 1, FALSE, <<>>)

RECURSIVE ConstraintsLoopMatchOnly(_, _, _, _)
\* the loop writing a line only when the line itself matches
ConstraintsLoopMatchOnly(inline, i, Found, out) ==
    IF i > Len(inline) THEN out
    ELSE LET line == inline[i]
             m == ConstraintsMatch(line)
         IN ConstraintsLoopMatchOnly(inline, i + 1, Found \/ m,
                                     IF m THEN out \o <<line>> ELSE out)

RECURSIVE ConstraintsLoop(_, _, _, _)
ConstraintsLoop(inline, i, Found, out) ==
    IF i > Len(inline) THEN out
    ELSE LET line == inline[i]
             found2 == Found \/ ConstraintsMatch(line)
         IN ConstraintsLoop(inline, i + 1, found2,
                            IF found2 THEN out \o <<line>> ELSE out)

\* the transform keeping the whole input when no line matches
constraints_post_processing_keep(inline) ==
    IF \E i \in 1..Len(inline) : ConstraintsMatch(inline[i])
    THEN ConstraintsLoop(inline, 1, FALSE, <<>>)
    ELSE inline

\* the lines _constraints_post_processing writes to outfile
constraints_post_processing(inline) == ConstraintsLoop(inline, 1, FALSE, <<>>)

(***************************************************************************)
(* Script statements                                                       *)
(***************************************************************************)
Stmt(cmd, args) == [cmd |-> cmd, args |-> args, buses |-> <<>>, maps |-> <<>>]

RECURSIVE JoinColon(_)
\* the names of a bus argument, joined by ":" as the script writes them
JoinColon(names) ==
    IF Len(names) = 0 THEN ""
    ELSE IF Len(names) = 1 THEN names[1]
    ELSE (names[1] \o ":") \o JoinColon(Tail(names))

\* "proc_add_bus_clock \"{}\" \"{}\" \"{}\"".format(clock, buses, reset)
AddBusClock(clock, names, reset) ==
    [cmd |-> "proc_add_bus_clock", args |-> <<clock, JoinColon(names), reset>>,
     buses |-> names, maps |-> <<>>]

\* the text of a procedure definition: "proc <name> {...} {...}"
ProcDef(name) == Stmt("proc", <<name>>)

\* the statement held by the string wishbone_add_bus
wishbone_add_bus ==
    [cmd |-> "proc_add_bus",
     args |-> <<"wishbone_in", "slave",
                "Enjoy-Digital.com:interface:wishbone_rtl:1.0",
                "Enjoy-Digital.com:interface:wishbone:1.0">>,
     buses |-> <<>>,
     maps |-> << <<"wishbone_in_adr", "wishbone_in_adr">>,
                 <<"wishbone_in_dat_w", "wishbone_in_dat_w">>,
                 <<"wishbone_in_dat_r", "wishbone_in_dat_r">>,
                 <<"wishbone_in_sel", "wishbone_in_sel">>,
                 <<"wishbone_in_cyc", "wishbone_in_cyc">>,
                 <<"wishbone_in_stb", "wishbone_in_stb">>,
                 <<"wishbone_in_ack", "wishbone_in_ack">>,
                 <<"wishbone_in_we", "wishbone_in_we">>,
                 <<"wishbone_in_cti", "wishbone_in_cti">>,
                 <<"wishbone_in_bte", "wishbone_in_bte">> ,
                 <<"wishbone_in_err", "wishbone_in_err">> >>]

(***************************************************************************)
(* GUI description and build_gui.  A dict is the sequence of its items in  *)
(* insertion order, which is the order a for loop visits them in.          *)
(***************************************************************************)
GuiVar(name, order) == [name |-> name, order |-> order]

GuiGroup(name, order, vari) == [name |-> name, order |-> order, vars |-> vari]

get_gui_interface ==
    << GuiGroup("AXI Lite", 0, << GuiVar("address_width", 0) >>),
       GuiGroup("AXI Stream", 1, << GuiVar("input_width", 0),
                                    GuiVar("output_width", 1),
                                    GuiVar("user_width", 2) >>),
       GuiGroup("Misc", 2, << GuiVar("reverse", 0) >>) >>

\* string1: the ipgui::add_group statement of a group
AddGroup(group) == Stmt("ipgui::add_group", <<group.name>>)

\* string2: the two statements of a variable of a group
MoveParam(group, var) ==
    << Stmt("ipgui::move_param", <<IntStr(var.order), var.name, group.name>>),
       Stmt("set_property", <<"enablement_value", "false",
                              "[ipx::get_user_parameters " \o var.name
                                  \o " -of_objects [ipx::current_core]]">>) >>

RECURSIVE GroupLoop(_, _)
\* the first loop: one add_group per group, from group i on
GroupLoop(d, i) ==
    IF i > Len(d) THEN <<>> ELSE <<AddGroup(d[i])>> \o GroupLoop(d, i + 1)

RECURSIVE VarLoop(_, _)
\* the inner loop over the variables of one group, from variable j on
VarLoop(group, j) ==
    IF j > Len(group.vars) THEN <<>>
    ELSE MoveParam(group, group.vars[j]) \o VarLoop(group, j + 1)

RECURSIVE VarsLoop(_, _)
\* the second loop over the groups, from group i on
VarsLoop(d, i) ==
    IF i > Len(d) THEN <<>> ELSE VarLoop(d[i], 1) \o VarsLoop(d, i + 1)

\* the statements of the string build_gui returns for the description d
build_gui(d) ==
    (<<Stmt("#", <<"Set GUI properties">>)>> \o GroupLoop(d, 1)) \o VarsLoop(d, 1)

(***************************************************************************)
(* The script of generate_package, one element per statement of            *)
(* "\n".join(tcl).                                                         *)
(***************************************************************************)
CurrentCore == "[ipx::current_core]"

version_number == "1.3"

\* "axi_converter_{}b_to_{}b".format(input_width, output_width)
BuildName(s) ==
    ((("axi_converter_" \o IntStr(s.input_width)) \o "b_to_")
        \o IntStr(s.output_width)) \o "b"

\* the procedure definitions without the one proc_add_bus relies on
ProceduresWithoutPortMap ==
    << ProcDef("proc_add_ip_files"),
       ProcDef("proc_add_bus"),
       ProcDef("proc_add_bus_clock"),
       ProcDef("proc_declare_interrupt"),
       ProcDef("proc_set_version"),
       ProcDef("proc_set_device_family"),
       ProcDef("proc_archive_ip") >>

\* tcl.append(proc_...): the procedure definitions
Procedures ==
    << ProcDef("proc_add_ip_files"),
       ProcDef("proc_add_port_map"),
       ProcDef("proc_add_bus"),
       ProcDef("proc_add_bus_clock"),
       ProcDef("proc_declare_interrupt"),
       ProcDef("proc_set_version"),
       ProcDef("proc_set_device_family"),
       ProcDef("proc_archive_ip") >>

\* project creation, file registration and packaging of the project
ProjectStatements(build_name) ==
    << Stmt("create_project", <<"-force", "-name", build_name \o "_packager">>),
       Stmt("proc_add_ip_files",
            <<build_name, "./ila.xci", ("./" \o build_name) \o ".xdc",
              ("./" \o build_name) \o ".v">>),
       Stmt("ipx::package_project",
            <<"-root_dir", ".", "-vendor", "Enjoy-Digital.com", "-library",
              "user", "-taxonomy", "/Enjoy_Digital">>),
       Stmt("set_property", <<"name", build_name, CurrentCore>>),
       Stmt("proc_set_device_family", <<"all">>),
       Stmt("ipx::save_core", <<CurrentCore>>) >>

\* tcl.append(wishbone_add_bus)
BusStatements == << wishbone_add_bus >>

\* the three proc_add_bus_clock statements
ClockStatements ==
    << AddBusClock("axilite_clk", <<"wishbone_in">>, "axilite_rst"),
       AddBusClock("axis_clk", <<"axis_in", "axis_out">>, "axis_rst"),
       AddBusClock("axilite_clk", <<"axilite_in">>, "axilite_rst") >>

InterruptStatements == << Stmt("proc_declare_interrupt", <<"irq">>) >>

\* tcl.append(build_gui())
GuiStatements == build_gui(get_gui_interface)

VersionStatements ==
    << Stmt("proc_set_version",
            <<"AXIConverter", version_number, "0",
              "axi_converter IP (Packaging Proof of Concept)">>) >>

\* the final statements with the archive before the save
FinalStatementsArchiveEarly(build_name) ==
    << Stmt("ipx::create_xgui_files", <<CurrentCore>>),
       Stmt("ipx::update_checksums", <<CurrentCore>>),
       Stmt("ipx::check_integrity", <<"-quiet", CurrentCore>>),
       Stmt("proc_archive_ip", <<"Enjoy-Digital", build_name, version_number>>),
       Stmt("ipx::save_core", <<CurrentCore>>),
       Stmt("close_project", <<>>),
       Stmt("exit", <<>>) >>

\* from ipx::create_xgui_files to exit
FinalStatements(build_name) ==
    << Stmt("ipx::create_xgui_files", <<CurrentCore>>),
       Stmt("ipx::update_checksums", <<CurrentCore>>),
       Stmt("ipx::check_integrity", <<"-quiet", CurrentCore>>),
       Stmt("ipx::save_core", <<CurrentCore>>),
       Stmt("proc_archive_ip", <<"Enjoy-Digital", build_name, version_number>>),
       Stmt("close_project", <<>>),
       Stmt("exit", <<>>) >>

\* the list with the clock bindings appended before the bus declaration
PackagerTclClocksFirst(build_name) ==
    Procedures \o ProjectStatements(build_name) \o ClockStatements
        \o BusStatements \o InterruptStatements \o GuiStatements
        \o VersionStatements \o FinalStatements(build_name)

\* the list with the version statement appended before the GUI statements
PackagerTclVersionEarly(build_name) ==
    Procedures \o ProjectStatements(build_name) \o BusStatements
        \o ClockStatements \o InterruptStatements \o VersionStatements
        \o GuiStatements \o FinalStatements(build_name)

\* the list with a core revision that counts the runs of the tool so far
PackagerTclCountsRuns(build_name) ==
    Procedures \o ProjectStatements(build_name) \o BusStatements
        \o ClockStatements \o InterruptStatements \o GuiStatements
        \o VersionStatements
        \o (IF vivado_log = <<>> THEN <<>>
            ELSE << Stmt("set_property", <<"core_revision", "1", CurrentCore>>) >>)
        \o FinalStatements(build_name)

\* the list tcl when it is written, in the order of its appends
PackagerTcl(build_name) ==
    Procedures \o ProjectStatements(build_name) \o BusStatements
        \o ClockStatements \o InterruptStatements \o GuiStatements
        \o VersionStatements \o FinalStatements(build_name)

(***************************************************************************)
(* What a statement does when the tool runs it, as far as the procedures   *)
(* of the script and the ports of the core say.                            *)
(***************************************************************************)
\* the AXI-Lite and AXI-Stream interfaces the core's ports form;
\* ipx::package_project infers them from the netlist registered before it
\* (the wishbone ports follow no interface the tool knows, which is why the
\* script declares wishbone_in itself)
InferredBuses == {"axilite_in", "axis_in", "axis_out"}

\* the bus interfaces a statement declares or infers
DeclaredBuses(st) ==
    IF st.cmd = "proc_add_bus" THEN {st.args[1]}
    ELSE IF st.cmd = "ipx::package_project" THEN InferredBuses
    ELSE {}

\* the properties proc_set_version sets on the current core
VersionProps == {"version", "core_revision", "display_name", "description",
                 "name", "vendor_display_name", "company_url"}

\* the properties of the current core a statement sets
CoreProps(st) ==
    IF st.cmd = "set_property" /\ st.args[3] = CurrentCore THEN {st.args[1]}
    ELSE IF st.cmd = "proc_set_version" THEN VersionProps
    ELSE IF st.cmd = "proc_set_device_family" THEN {"supported_families"}
    ELSE {}

(***************************************************************************)
(* State                                                                   *)
(***************************************************************************)
\* AXIConverter.__init__ as main calls it: address_width keeps its default
AXIConverter(input_width, output_width, user_width, reverse) ==
    [address_width |-> 64, input_width |-> input_width,
     output_width |-> output_width, user_width |-> user_width,
     reverse |-> reverse]

\* the package directory: missing, or holding the files written to it
NoPackage == [exists |-> FALSE, stale |-> FALSE, ila |-> FALSE,
              v |-> <<>>, xdc |-> <<>>, tcl |-> <<>>]

\* a package directory left by an earlier run
StalePackage == [NoPackage EXCEPT !.exists = TRUE, !.stale = TRUE]

\* the values of the command line the model draws
InputWidths == {64, 128}
OutputWidths == {64}
UserWidths == {0}

\* all sequences of at most max elements of set
SeqsUpTo(set, max) == UNION {[1..n -> set] : n \in 0..max}

\* netlist lines: the end of the port list, a module header, a line that
\* holds ");" after other text; and a last line without its line break
NetlistLines == { <<")", ";", "\n">>, <<"m", "(", "\n">>,
                  <<"f", "(", ")", ";", "\n">> }

NetlistTails == { <<>>, << <<")", ";">> >> }

Netlists == { body \o tail : body \in SeqsUpTo(NetlistLines, MaxNetlistLines),
                             tail \in NetlistTails }

\* constraints lines
XdcLines == { <<"j", "u", "n", "k", "\n">>,
              <<"-", "-", " ", "d", "e", "s", "i", "g", "n", " ", "c", "o", "n",
                "s", "t", "r", "a", "i", "n", "t", "s", " ", "-", "-", "\n">>,
              <<"-", "-", " ", "D", "e", "s", "i", "g", "n", " ", "c", "o", "n",
                "s", "t", "r", "a", "i", "n", "t", "s", " ", "-", "-", "\n">> }

XdcTails == { <<>>, << <<"k", "e", "e", "p", " ", "m", "e">> >> }

Xdcs == { body \o tail : body \in SeqsUpTo(XdcLines, MaxXdcLines),
                         tail \in XdcTails }

\* the build files the model draws: every netlist next to one constraints
\* file and every constraints file next to one netlist (the two files are
\* rewritten independently of each other)
DefaultNetlist == << <<"m", "(", "\n">>, <<")", ";", "\n">> >>

DefaultXdc ==
    << <<"j", "u", "n", "k", "\n">>,
       <<"-", "-", " ", "D", "e", "s", "i", "g", "n", " ", "c", "o", "n",
         "s", "t", "r", "a", "i", "n", "t", "s", " ", "-", "-", "\n">>,
       <<"k", "e", "e", "p", " ", "m", "e">> >>

BuildFiles == { <<n, DefaultXdc>> : n \in Netlists } \cup
              { <<DefaultNetlist, x>> : x \in Xdcs }

\* the command line: a width argument is given (length 1) or left out
\* (length 0); the switches --build and --project are not modelled
NoWidths == [input_width |-> <<>>, output_width |-> <<>>, user_width |-> <<>>]

GivenWidths == { [input_width |-> <<iw>>, output_width |-> <<ow>>,
                  user_width |-> <<uw>>] :
                 iw \in InputWidths, ow \in OutputWidths, uw \in UserWidths }

Argvs == { [input_width |-> w.input_width, output_width |-> w.output_width,
            user_width |-> w.user_width, reverse |-> rev,
            interface |-> i, package |-> p] :
           w \in {NoWidths} \cup GivenWidths, rev \in BOOLEAN,
           i \in BOOLEAN, p \in BOOLEAN }

\* parser.add_argument(..., default=...) for an argument that is left out
parse_args_init_defaults(a) ==
    [input_width  |-> IF a.input_width = <<>> THEN 64 ELSE a.input_width[1],
     output_width |-> IF a.output_width = <<>> THEN 64 ELSE a.output_width[1],
     user_width   |-> IF a.user_width = <<>> THEN 0 ELSE a.user_width[1],
     reverse      |-> a.reverse]

parse_args(a) ==
    [input_width  |-> IF a.input_width = <<>> THEN 128 ELSE a.input_width[1],
     output_width |-> IF a.output_width = <<>> THEN 64 ELSE a.output_width[1],
     user_width   |-> IF a.user_width = <<>> THEN 0 ELSE a.user_width[1],
     reverse      |-> a.reverse]

\* module = AXIConverter(platform, input_width=int(args.input_width), ...)
Module(a) ==
    AXIConverter(parse_args(a).input_width, parse_args(a).output_width,
                 parse_args(a).user_width, parse_args(a).reverse)

\* the interfaces directory: missing, or holding interfaces.tcl; log is the
\* exit status of each run of the tool on it
NoInterfaces == [exists |-> FALSE, tcl |-> <<>>, log |-> <<>>]

StaleInterfaces == [NoInterfaces EXCEPT !.exists = TRUE]

\* the ports generate_interface declares for the wishbone interface
WishbonePorts ==
    << <<"wishbone_adr", "30", "input">>,
       <<"wishbone_dat_w", "16", "input">>,
       <<"wishbone_dat_r", "16", "output">>,
       <<"wishbone_sel", "2", "input">>,
       <<"wishbone_cyc", "1", "input">>,
       <<"wishbone_stb", "1", "input">>,
       <<"wishbone_ack", "1", "output">>,
       <<"wishbone_we", "1", "input">>,
       <<"wishbone_cti", "3", "input">>,
       <<"wishbone_bte", "2", "input">>,
       <<"wishbone_err", "1", "output">> >>

\* the statements of interfaces.tcl
InterfacesTcl ==
    << ProcDef("proc_define_interface"),
       ProcDef("proc_define_interface_port"),
       Stmt("set", <<"if_name", "wishbone">>),
       Stmt("proc_define_interface", <<"$if_name">>) >> \o
    [i \in 1..Len(WishbonePorts) |->
        Stmt("proc_define_interface_port", WishbonePorts[i])]

\* the second run of the program on the same command line: not started
NoRun2 == [pc |-> "none", error |-> "none", vivado_log |-> <<>>, tcl |-> <<>>,
           serial |-> TRUE]

\* no call of proc_add_bus_clock
NoBinding == [clock |-> <<>>, bus |-> <<>>, reset |-> <<>>]

Init ==
    /\ argv \in Argvs
    /\ self = Module(argv)
    /\ IF argv.package
       THEN \/ build_v = <<>> /\ build_xdc = <<>>
            \/ \E f \in BuildFiles : build_v = <<f[1]>> /\ build_xdc = <<f[2]>>
       ELSE build_v = <<>> /\ build_xdc = <<>>
    /\ package \in IF argv.package THEN {NoPackage, StalePackage} ELSE {NoPackage}
    /\ interfaces \in IF argv.interface THEN {NoInterfaces, StaleInterfaces}
                                        ELSE {NoInterfaces}
    /\ pc = "main"
    /\ error = "none"
    /\ exit_code = <<>>
    /\ vivado_log = <<>>
    /\ tcl = <<>>
    /\ run2 = NoRun2
    /\ binding = NoBinding
    /\ core = <<>>
    /\ dict_gui = get_gui_interface
    /\ gui_out = <<>>

(***************************************************************************)
(* main and generate_interface                                             *)
(***************************************************************************)
\* if args.interface: ...  if args.package: ...
Main ==
    /\ pc = "main"
    /\ pc' = IF argv.interface THEN "if_rmtree"
             ELSE IF argv.package THEN "rmtree" ELSE "done"
    /\ UNCHANGED <<self, build_v, build_xdc, package, error, vivado_log,
                   dict_gui, gui_out, tcl, aux>>

\* shutil.rmtree(project, ignore_errors=True)
InterfaceRmtree ==
    /\ pc = "if_rmtree"
    /\ interfaces' = NoInterfaces
    /\ pc' = "if_makedirs"
    /\ UNCHANGED <<self, build_v, build_xdc, package, error, vivado_log,
                   dict_gui, gui_out, tcl, argv, exit_code, run2, binding, core>>

\* os.makedirs(project)
InterfaceMakedirs ==
    /\ pc = "if_makedirs"
    /\ IF interfaces.exists
       THEN /\ error' = "FileExistsError"
            /\ pc' = "failed"
            /\ UNCHANGED interfaces
       ELSE /\ interfaces' = [interfaces EXCEPT !.exists = TRUE]
            /\ pc' = "if_write"
            /\ UNCHANGED error
    /\ UNCHANGED <<self, build_v, build_xdc, package, vivado_log,
                   dict_gui, gui_out, tcl, argv, exit_code, run2, binding, core>>

\* tcl = [...]; tools.write_to_file(project + "/interfaces.tcl", ...)
InterfaceWrite ==
    /\ pc = "if_write"
    /\ interfaces' = [interfaces EXCEPT !.tcl = <<InterfacesTcl>>]
    /\ pc' = "if_vivado"
    /\ UNCHANGED <<self, build_v, build_xdc, package, error, vivado_log,
                   dict_gui, gui_out, tcl, argv, exit_code, run2, binding, core>>

\* os.system("cd {} && vivado -mode batch -source interfaces.tcl"...), then
\* back in main: if args.package: ...
InterfaceVivado ==
    /\ pc = "if_vivado"
    /\ \E status \in {0, 1} :
          interfaces' = [interfaces EXCEPT !.log = Append(interfaces.log, status)]
    /\ pc' = IF argv.package THEN "rmtree" ELSE "done"
    /\ UNCHANGED <<self, build_v, build_xdc, package, error, vivado_log,
                   dict_gui, gui_out, tcl, argv, exit_code, run2, binding, core>>

(***************************************************************************)
(* generate_package, one action per step that reads or writes the file     *)
(* system or runs a command                                                *)
(***************************************************************************)
\* shutil.rmtree(package, ignore_errors=True)
Rmtree ==
    /\ pc = "rmtree"
    /\ package' = NoPackage
    /\ pc' = "makedirs"
    /\ UNCHANGED <<self, build_v, build_xdc, error, vivado_log, dict_gui, gui_out, tcl, aux>>

\* os.makedirs(package)
Makedirs ==
    /\ pc = "makedirs"
    /\ IF package.exists
       THEN /\ error' = "FileExistsError"
            /\ pc' = "failed"
            /\ UNCHANGED package
       ELSE /\ package' = [package EXCEPT !.exists = TRUE]
            /\ pc' = "cp"
            /\ UNCHANGED error
    /\ UNCHANGED <<self, build_v, build_xdc, vivado_log, dict_gui, gui_out, tcl, aux>>

\* os.system("cp -r ila/ila.xci {}".format(package))
CopyIla ==
    /\ pc = "cp"
    /\ package' = [package EXCEPT !.ila = package.exists]
    /\ pc' = "netlist"
    /\ UNCHANGED <<self, build_v, build_xdc, error, vivado_log, dict_gui, gui_out, tcl, aux>>

\* the netlist step followed at once by the writing of the script
NetlistPostProcessingThenWrite ==
    /\ pc = "netlist"
    /\ IF build_v = <<>> \/ ~package.exists
       THEN /\ error' = "FileNotFoundError"
            /\ pc' = "failed"
            /\ UNCHANGED package
       ELSE /\ package' = [package EXCEPT
                               !.v = <<netlist_post_processing(self, build_v[1])>>]
            /\ pc' = "write"
            /\ UNCHANGED error
    /\ UNCHANGED <<self, build_v, build_xdc, vivado_log, dict_gui, gui_out, tcl, aux>>

\* self._netlist_post_processing("build/<name>.v", "<package>/<name>.v")
NetlistPostProcessing ==
    /\ pc = "netlist"
    /\ IF build_v = <<>> \/ ~package.exists
       THEN /\ error' = "FileNotFoundError"
            /\ pc' = "failed"
            /\ UNCHANGED package
       ELSE /\ package' = [package EXCEPT
                               !.v = <<netlist_post_processing(self, build_v[1])>>]
            /\ pc' = "constraints"
            /\ UNCHANGED error
    /\ UNCHANGED <<self, build_v, build_xdc, vivado_log, dict_gui, gui_out, tcl, aux>>

\* self._constraints_post_processing("build/<name>.xdc", "<package>/<name>.xdc")
ConstraintsPostProcessing ==
    /\ pc = "constraints"
    /\ IF build_xdc = <<>> \/ ~package.exists
       THEN /\ error' = "FileNotFoundError"
            /\ pc' = "failed"
            /\ UNCHANGED package
       ELSE /\ package' = [package EXCEPT
                               !.xdc = <<constraints_post_processing(build_xdc[1])>>]
            /\ pc' = "write"
            /\ UNCHANGED error
    /\ UNCHANGED <<self, build_v, build_xdc, vivado_log, dict_gui, gui_out, tcl, aux>>

\* tcl = [...]; tools.write_to_file(package + "/packager.tcl", "\n".join(tcl))
WritePackager ==
    /\ pc = "write"
    /\ IF ~package.exists
       THEN /\ error' = "FileNotFoundError"
            /\ pc' = "failed"
            /\ UNCHANGED package
       ELSE /\ package' = [package EXCEPT !.tcl = <<PackagerTcl(BuildName(self))>>]
            /\ pc' = "vivado"
            /\ UNCHANGED error
    /\ tcl' = <<PackagerTcl(BuildName(self))>>
    /\ UNCHANGED <<self, build_v, build_xdc, vivado_log, dict_gui, gui_out, aux>>

\* os.system("cd {} && vivado -mode batch -source packager.tcl".format(package))
\* the exit status of the command is not looked at
RunVivado ==
    /\ pc = "vivado"
    /\ \E status \in (IF package.exists THEN {0, 1} ELSE {1}) :
          vivado_log' = Append(vivado_log, status)
    /\ pc' = "done"
    /\ UNCHANGED <<self, build_v, build_xdc, package, error, dict_gui, gui_out, tcl, aux>>

\* main returns: the interpreter exits with status 0
MainReturn ==
    /\ pc = "done"
    /\ pc' = "exited"
    /\ exit_code' = <<0>>
    /\ UNCHANGED <<self, build_v, build_xdc, package, error, vivado_log,
                   dict_gui, gui_out, tcl, argv, interfaces, run2, binding, core>>

\* an exception nothing catches: the interpreter prints it and exits with
\* status 1
Uncaught ==
    /\ pc = "failed"
    /\ pc' = "exited"
    /\ exit_code' = <<1>>
    /\ UNCHANGED <<self, build_v, build_xdc, package, error, vivado_log,
                   dict_gui, gui_out, tcl, argv, interfaces, run2, binding, core>>

Next ==
    \/ Main
    \/ InterfaceRmtree
    \/ InterfaceMakedirs
    \/ InterfaceWrite
    \/ InterfaceVivado
    \/ MainReturn
    \/ Uncaught
    \/ Rmtree
    \/ Makedirs
    \/ CopyIla
    \/ NetlistPostProcessing
    \/ ConstraintsPostProcessing
    \/ WritePackager
    \/ RunVivado

Spec == Init /\ [][Next]_vars

(***************************************************************************)
(* Two runs of the program with --package on the same command line, hence  *)
(* on the same package directory.  The second run is a process of its own; *)
(* run2.serial tells whether the caller starts it after the first run has  *)
(* exited or at any time.                                                  *)
(***************************************************************************)
frame2 == <<self, build_v, build_xdc, pc, error, vivado_log, dict_gui, gui_out,
            argv, exit_code, interfaces, tcl, binding, core>>

InitTwice ==
    /\ argv \in { a \in Argvs : a.package /\ ~a.interface }
    /\ self = Module(argv)
    /\ build_v = <<DefaultNetlist>>
    /\ build_xdc = <<DefaultXdc>>
    /\ package \in {NoPackage, StalePackage}
    /\ interfaces = NoInterfaces
    /\ pc = "main"
    /\ error = "none"
    /\ exit_code = <<>>
    /\ vivado_log = <<>>
    /\ tcl = <<>>
    /\ \E b \in BOOLEAN : run2 = [NoRun2 EXCEPT !.pc = "wait", !.serial = b]
    /\ binding = NoBinding
    /\ core = <<>>
    /\ dict_gui = get_gui_interface
    /\ gui_out = <<>>

\* the second process reaches generate_package
Start2 ==
    /\ run2.pc = "wait"
    /\ run2.serial => pc = "exited"
    /\ run2' = [run2 EXCEPT !.pc = "rmtree"]
    /\ UNCHANGED <<package, frame2>>

\* a clear that leaves the directory as it is
Rmtree2Keeps ==
    /\ run2.pc = "rmtree"
    /\ run2' = [run2 EXCEPT !.pc = "makedirs"]
    /\ UNCHANGED <<package, frame2>>

\* shutil.rmtree(package, ignore_errors=True)
Rmtree2 ==
    /\ run2.pc = "rmtree"
    /\ package' = NoPackage
    /\ run2' = [run2 EXCEPT !.pc = "makedirs"]
    /\ UNCHANGED frame2

\* os.makedirs(package)
Makedirs2 ==
    /\ run2.pc = "makedirs"
    /\ IF package.exists
       THEN /\ run2' = [run2 EXCEPT !.pc = "failed", !.error = "FileExistsError"]
            /\ UNCHANGED package
       ELSE /\ package' = [package EXCEPT !.exists = TRUE]
            /\ run2' = [run2 EXCEPT !.pc = "cp"]
    /\ UNCHANGED frame2

\* os.system("cp -r ila/ila.xci {}".format(package))
CopyIla2 ==
    /\ run2.pc = "cp"
    /\ package' = [package EXCEPT !.ila = package.exists]
    /\ run2' = [run2 EXCEPT !.pc = "netlist"]
    /\ UNCHANGED frame2

\* self._netlist_post_processing(...)
NetlistPostProcessing2 ==
    /\ run2.pc = "netlist"
    /\ IF build_v = <<>> \/ ~package.exists
       THEN /\ run2' = [run2 EXCEPT !.pc = "failed", !.error = "FileNotFoundError"]
            /\ UNCHANGED package
       ELSE /\ package' = [package EXCEPT
                               !.v = <<netlist_post_processing(self, build_v[1])>>]
            /\ run2' = [run2 EXCEPT !.pc = "constraints"]
    /\ UNCHANGED frame2

\* self._constraints_post_processing(...)
ConstraintsPostProcessing2 ==
    /\ run2.pc = "constraints"
    /\ IF build_xdc = <<>> \/ ~package.exists
       THEN /\ run2' = [run2 EXCEPT !.pc = "failed", !.error = "FileNotFoundError"]
            /\ UNCHANGED package
       ELSE /\ package' = [package EXCEPT
                               !.xdc = <<constraints_post_processing(build_xdc[1])>>]
            /\ run2' = [run2 EXCEPT !.pc = "write"]
    /\ UNCHANGED frame2

\* tcl = [...]; tools.write_to_file(package + "/packager.tcl", "\n".join(tcl))
WritePackager2 ==
    /\ run2.pc = "write"
    /\ IF ~package.exists
       THEN /\ run2' = [run2 EXCEPT !.pc = "failed", !.error = "FileNotFoundError",
                                    !.tcl = <<PackagerTcl(BuildName(self))>>]
            /\ UNCHANGED package
       ELSE /\ package' = [package EXCEPT !.tcl = <<PackagerTcl(BuildName(self))>>]
            /\ run2' = [run2 EXCEPT !.pc = "vivado",
                                    !.tcl = <<PackagerTcl(BuildName(self))>>]
    /\ UNCHANGED frame2

\* os.system("cd {} && vivado -mode batch -source packager.tcl".format(package))
RunVivado2 ==
    /\ run2.pc = "vivado"
    /\ \E status \in (IF package.exists THEN {0, 1} ELSE {1}) :
          run2' = [run2 EXCEPT !.pc = "done",
                              !.vivado_log = Append(run2.vivado_log, status)]
    /\ UNCHANGED <<package, frame2>>

NextTwice ==
    \/ Main
    \/ Rmtree
    \/ Makedirs
    \/ CopyIla
    \/ NetlistPostProcessing
    \/ ConstraintsPostProcessing
    \/ WritePackager
    \/ RunVivado
    \/ MainReturn
    \/ Uncaught
    \/ Start2
    \/ Rmtree2
    \/ Makedirs2
    \/ CopyIla2
    \/ NetlistPostProcessing2
    \/ ConstraintsPostProcessing2
    \/ WritePackager2
    \/ RunVivado2

SpecTwice == InitTwice /\ [][NextTwice]_vars

(***************************************************************************)
(* The procedure proc_add_bus_clock as the tool runs it, applied to clock  *)
(* bindings drawn from a bounded set.  Names are sequences of characters;  *)
(* the core is the sequence of the bus interfaces added to it.             *)
(***************************************************************************)
\* the characters of the names in the proc_add_bus_clock statements
Chars(str) ==
    CASE str = "axilite_clk" ->
           <<"a", "x", "i", "l", "i", "t", "e", "_", "c", "l", "k">>
      [] str = "axis_clk" ->
           <<"a", "x", "i", "s", "_", "c", "l", "k">>
      [] str = "axilite_rst" ->
           <<"a", "x", "i", "l", "i", "t", "e", "_", "r", "s", "t">>
      [] str = "axis_rst" ->
           <<"a", "x", "i", "s", "_", "r", "s", "t">>
      [] str = "wishbone_in" ->
           <<"w", "i", "s", "h", "b", "o", "n", "e", "_", "i", "n">>
      [] str = "axis_in:axis_out" ->
           <<"a", "x", "i", "s", "_", "i", "n", ":", "a", "x", "i", "s", "_", "o", "u", "t">>
      [] str = "axilite_in" ->
           <<"a", "x", "i", "l", "i", "t", "e", "_", "i", "n">>

\* [string map {":" "_"} $bus_inf_name]
StringMapColon(s) == [i \in 1..Len(s) |-> IF s[i] = ":" THEN "_" ELSE s[i]]

\* [string match {*[Nn]} $reset_signal_name]
StringMatchNn(s) == Len(s) >= 1 /\ s[Len(s)] \in {"N", "n"}

\* the clock interface; ASSOCIATED_RESET has length 0 when the parameter is
\* not added
ClockInf(clock_signal_name, bus_inf_name, reset_signal_name) ==
    [type |-> "clock",
     name |-> StringMapColon(bus_inf_name) \o <<"_", "s", "i", "g", "n", "a", "l", "_", "c", "l", "o", "c", "k">>,
     physical_name |-> clock_signal_name,
     ASSOCIATED_BUSIF |-> bus_inf_name,
     ASSOCIATED_RESET |-> IF reset_signal_name # <<>>
                          THEN <<reset_signal_name>> ELSE <<>>]

\* the reset interface
ResetInf(bus_inf_name, reset_signal_name, polarity) ==
    [type |-> "reset",
     name |-> StringMapColon(bus_inf_name) \o <<"_", "s", "i", "g", "n", "a", "l", "_", "r", "e", "s", "e", "t">>,
     physical_name |-> reset_signal_name,
     interface_mode |-> "slave",
     POLARITY |-> polarity]

\* the procedure with a polarity test that knows the lower-case n only
proc_add_bus_clock_lower_n(clock_signal_name, bus_inf_name, reset_signal_name) ==
    << ClockInf(clock_signal_name, bus_inf_name, reset_signal_name) >> \o
    (IF reset_signal_name # <<>>
     THEN << ResetInf(bus_inf_name, reset_signal_name,
                      IF reset_signal_name[Len(reset_signal_name)] = "n"
                      THEN "ACTIVE_LOW" ELSE "ACTIVE_HIGH") >>
     ELSE <<>>)

\* proc proc_add_bus_clock {clock_signal_name bus_inf_name
\*                          {reset_signal_name ""} {reset_signal_mode "slave"}}
proc_add_bus_clock(clock_signal_name, bus_inf_name, reset_signal_name) ==
    << ClockInf(clock_signal_name, bus_inf_name, reset_signal_name) >> \o
    (IF reset_signal_name # <<>>
     THEN << ResetInf(bus_inf_name, reset_signal_name,
                      IF StringMatchNn(reset_signal_name)
                      THEN "ACTIVE_LOW" ELSE "ACTIVE_HIGH") >>
     ELSE <<>>)

\* the bindings of the three proc_add_bus_clock statements of the script
CatalogBindings ==
    { [clock |-> Chars(ClockStatements[i].args[1]),
       bus   |-> Chars(ClockStatements[i].args[2]),
       reset |-> Chars(ClockStatements[i].args[3])] :
      i \in 1..Len(ClockStatements) }

\* the reset signal names the model draws besides those of the script
ResetAlphabet == {"r", "_", "n", "N"}

ResetNames == SeqsUpTo(ResetAlphabet, MaxResetLen)

Bindings ==
    CatalogBindings \cup
    { [clock |-> b.clock, bus |-> b.bus, reset |-> r] :
      b \in CatalogBindings, r \in ResetNames }

InitClock ==
    /\ self = AXIConverter(128, 64, 0, FALSE)
    /\ build_v = <<>>
    /\ build_xdc = <<>>
    /\ package = NoPackage
    /\ pc = "proc_add_bus_clock"
    /\ error = "none"
    /\ vivado_log = <<>>
    /\ argv = [input_width |-> <<>>, output_width |-> <<>>, user_width |-> <<>>,
               reverse |-> FALSE, interface |-> FALSE, package |-> FALSE]
    /\ exit_code = <<>>
    /\ interfaces = NoInterfaces
    /\ tcl = <<>>
    /\ run2 = NoRun2
    /\ binding \in Bindings
    /\ core = <<>>
    /\ dict_gui = get_gui_interface
    /\ gui_out = <<>>

\* the tool runs one proc_add_bus_clock statement
ProcAddBusClock ==
    /\ pc = "proc_add_bus_clock"
    /\ core' = core \o proc_add_bus_clock(binding.clock, binding.bus, binding.reset)
    /\ pc' = "clock_done"
    /\ UNCHANGED <<self, build_v, build_xdc, package, error, vivado_log, dict_gui,
                   gui_out, argv, exit_code, interfaces, tcl, run2, binding>>

NextClock == ProcAddBusClock

SpecClock == InitClock /\ [][NextClock]_vars

(***************************************************************************)
(* build_gui applied to GUI descriptions drawn from a bounded set          *)
(***************************************************************************)
GroupNames == {"AXI Lite", "AXI Stream"}

VarNames == {"input_width", "output_width"}

\* the sequences of s whose elements have different names
DistinctNames(s) == \A i, j \in 1..Len(s) : i # j => s[i].name # s[j].name

GuiVarLists ==
    { v \in SeqsUpTo([name : VarNames, order : 0..MaxOrder], MaxVars) :
        DistinctNames(v) }

GuiDescriptions ==
    { d \in SeqsUpTo([name : GroupNames, order : 0..MaxOrder, vars : GuiVarLists],
                     MaxGroups) : DistinctNames(d) }

InitGui ==
    /\ self = AXIConverter(128, 64, 0, FALSE)
    /\ build_v = <<>>
    /\ build_xdc = <<>>
    /\ package = NoPackage
    /\ pc = "build_gui"
    /\ error = "none"
    /\ vivado_log = <<>>
    /\ argv = [input_width |-> <<>>, output_width |-> <<>>, user_width |-> <<>>,
               reverse |-> FALSE, interface |-> FALSE, package |-> FALSE]
    /\ exit_code = <<>>
    /\ interfaces = NoInterfaces
    /\ tcl = <<>>
    /\ run2 = NoRun2
    /\ binding = NoBinding
    /\ core = <<>>
    /\ dict_gui \in GuiDescriptions
    /\ gui_out = <<>>

\* string = build_gui() for the description dict_gui
BuildGui ==
    /\ pc = "build_gui"
    /\ gui_out' = build_gui(dict_gui)
    /\ pc' = "gui_done"
    /\ UNCHANGED <<self, build_v, build_xdc, package, error, vivado_log, dict_gui, tcl, aux>>

NextGui == BuildGui

SpecGui == InitGui /\ [][NextGui]_vars

(***************************************************************************)
(* Properties                                                              *)
(***************************************************************************)
\* the index of the first element of s that satisfies Test
FirstIndex(s, Test(_)) ==
    CHOOSE k \in 1..Len(s) : Test(s[k]) /\ \A j \in 1..(k - 1) : ~Test(s[j])

\* the indices of the statements of t whose command is cmd
IndicesOf(t, cmd) == {i \in 1..Len(t) : t[i].cmd = cmd}

\* the script has been written to packager.tcl
ScriptWritten == package.tcl # <<>>

\* commands that declare the interfaces and the layout of the core: bus
\* declaration or inference, clock binding, interrupt, GUI layout
InterfaceCmds == {"proc_add_bus", "ipx::package_project", "proc_add_bus_clock",
                  "proc_declare_interrupt", "ipgui::add_group",
                  "ipgui::move_param"}

\* st is a bus, clock, interrupt or GUI statement (the set_property of
\* enablement_value belongs to the GUI statements)
IsInterfaceStmt(st) ==
    \/ st.cmd \in InterfaceCmds
    \/ st.cmd = "set_property" /\ st.args[1] = "enablement_value"

\* C1: in the script of generate_package every bus name a proc_add_bus_clock
\* statement references (each name of a ":"-separated list) is declared or
\* inferred by a statement with a strictly smaller index.
C1_BusBeforeClock ==
    ScriptWritten =>
        LET t == package.tcl[1]
        IN \A i \in IndicesOf(t, "proc_add_bus_clock") :
               \A k \in 1..Len(t[i].buses) :
                   \E j \in 1..(i - 1) : t[i].buses[k] \in DeclaredBuses(t[j])

\* the run is over and its script holds a clock binding of two buses
C1_Witness ==
    /\ pc = "done"
    /\ ScriptWritten
    /\ \E i \in IndicesOf(package.tcl[1], "proc_add_bus_clock") :
           package.tcl[1][i].buses = <<"axis_in", "axis_out">>

\* a line that is exactly ");" and a line break: the end of the port list
IsPortListEnd(line) == line = <<")", ";", "\n">>

HasPortListEnd(inline) == \E i \in 1..Len(inline) : IsPortListEnd(inline[i])

\* line declares the parameter name: "parameter <name> = <value>;\n"
DeclaresParameter(name, line) ==
    LET head == (<<"p", "a", "r", "a", "m", "e", "t", "e", "r", " ">> \o name)
                    \o <<" ", "=", " ">>
    IN /\ Len(line) > Len(head) + 2
       /\ SubSeq(line, 1, Len(head)) = head
       /\ SubSeq(line, Len(line) - 1, Len(line)) = <<";", "\n">>

ParameterNames ==
    <<N_address_width, N_input_width, N_output_width, N_user_width, N_reverse>>

\* the netlist has been rewritten into the package directory
NetlistDone == package.v # <<>>

\* C2: when the netlist holds at least one end-of-port-list line, the
\* rewritten netlist is the input with exactly five lines added, one
\* declaration per parameter, right after the first such line and nowhere
\* else, also when such a line occurs again later.
C2_FiveLinesAfterFirstMarker ==
    (NetlistDone /\ HasPortListEnd(build_v[1])) =>
        LET inline == build_v[1]
            out == package.v[1]
            k == FirstIndex(inline, IsPortListEnd)
        IN /\ Len(out) = Len(inline) + 5
           /\ SubSeq(out, 1, k) = SubSeq(inline, 1, k)
           /\ \A n \in 1..5 : DeclaresParameter(ParameterNames[n], out[k + n])
           /\ SubSeq(out, k + 6, Len(out)) = SubSeq(inline, k + 1, Len(inline))

\* a netlist with two end-of-port-list lines has been rewritten
C2_Witness ==
    /\ NetlistDone
    /\ \E i, j \in 1..Len(build_v[1]) :
           i < j /\ IsPortListEnd(build_v[1][i]) /\ IsPortListEnd(build_v[1][j])

\* C3: the five injected lines carry the values of the configuration of the
\* run; the reverse line is zero exactly when reverse is false.
C3_InjectedValuesMatchConfig ==
    (NetlistDone /\ HasPortListEnd(build_v[1])) =>
        LET out == package.v[1]
            k == FirstIndex(build_v[1], IsPortListEnd)
        IN /\ out[k + 1] = ParameterLine(N_address_width, self.address_width)
           /\ out[k + 2] = ParameterLine(N_input_width, self.input_width)
           /\ out[k + 3] = ParameterLine(N_output_width, self.output_width)
           /\ out[k + 4] = ParameterLine(N_user_width, self.user_width)
           /\ DeclaresParameter(N_reverse, out[k + 5])
           /\ (out[k + 5] = ParameterLine(N_reverse, 0)) <=> ~self.reverse

\* the constraints file has been rewritten into the package directory
ConstraintsDone == package.xdc # <<>>

HasConstraintsMarker(inline) ==
    \E i \in 1..Len(inline) : ConstraintsMatch(inline[i])

\* C4: when a line of the constraints file contains the marker, the
\* rewritten file is exactly the suffix of the input that starts at the
\* first such line.
C4_SuffixFromFirstMarker ==
    (ConstraintsDone /\ HasConstraintsMarker(build_xdc[1])) =>
        LET inline == build_xdc[1]
            k == FirstIndex(inline, ConstraintsMatch)
        IN package.xdc[1] = SubSeq(inline, k, Len(inline))

\* a file with a line before the first marker line and a line without the
\* marker after it has been rewritten
C4_Witness ==
    /\ ConstraintsDone
    /\ HasConstraintsMarker(build_xdc[1])
    /\ LET inline == build_xdc[1]
           k == FirstIndex(inline, ConstraintsMatch)
       IN /\ k > 1
          /\ \E j \in (k + 1)..Len(inline) : ~ConstraintsMatch(inline[j])

\* C5: when no line of the constraints file contains the marker, the step
\* raises no error and the rewritten file is an empty document.
C5_NoMarkerGivesEmpty ==
    (build_v # <<>> /\ build_xdc # <<>> /\ ~HasConstraintsMarker(build_xdc[1])) =>
        /\ error = "none"
        /\ pc # "failed"
        /\ pc \in {"write", "vivado", "done"} => package.xdc = << <<>> >>

\* a file of several lines, none of them with the marker, has been rewritten
C5_Witness ==
    /\ pc \in {"write", "vivado", "done"}
    /\ build_xdc # <<>>
    /\ Len(build_xdc[1]) >= 2
    /\ ~HasConstraintsMarker(build_xdc[1])

L_junk == <<"j", "u", "n", "k", "\n">>

L_lower == <<"-", "-", " ", "d", "e", "s", "i", "g", "n", " ", "c", "o", "n", "s",
             "t", "r", "a", "i", "n", "t", "s", " ", "-", "-", "\n">>

L_upper == <<"-", "-", " ", "D", "e", "s", "i", "g", "n", " ", "c", "o", "n", "s",
             "t", "r", "a", "i", "n", "t", "s", " ", "-", "-", "\n">>

L_keep == <<"k", "e", "e", "p", " ", "m", "e">>

\* C6 as stated: the input "junk", "-- design constraints --", "keep me" is
\* truncated to "-- design constraints --", "keep me".
C6_LowerCaseMarker ==
    (ConstraintsDone /\ build_xdc[1] = <<L_junk, L_lower, L_keep>>) =>
        package.xdc[1] = <<L_lower, L_keep>>

\* C6: the marker is "Design constraints" with a capital D, matched
\* case-sensitively: "junk", "-- Design constraints --", "keep me" is
\* truncated to "-- Design constraints --", "keep me", and the same input
\* with "design constraints" in lower case gives an empty document.
C6_CapitalisedMarker ==
    ConstraintsDone =>
        /\ build_xdc[1] = <<L_junk, L_upper, L_keep>> =>
               package.xdc[1] = <<L_upper, L_keep>>
        /\ build_xdc[1] = <<L_junk, L_lower, L_keep>> => package.xdc[1] = <<>>

\* the three-line input with the capitalised marker has been rewritten
C6_Witness ==
    ConstraintsDone /\ build_xdc[1] = <<L_junk, L_upper, L_keep>>

\* the place of the group called name in the description
GroupIndex(name) == CHOOSE i \in 1..Len(dict_gui) : dict_gui[i].name = name

\* the place of the variable called name in the group at place g
VarIndex(g, name) ==
    CHOOSE j \in 1..Len(dict_gui[g].vars) : dict_gui[g].vars[j].name = name

\* the sort key of a layout statement: group order, member order, and the
\* places in the declaration as tiebreak
LayoutKey(st) ==
    IF st.cmd = "ipgui::add_group"
    THEN <<dict_gui[GroupIndex(st.args[1])].order, GroupIndex(st.args[1]), 0, 0>>
    ELSE LET g == GroupIndex(st.args[3])
             v == VarIndex(g, st.args[2])
         IN <<dict_gui[g].order, g, dict_gui[g].vars[v].order, v>>

\* keys in ascending order: group order, then member order, declaration
\* order among equals
KeyLeq(a, b) ==
    \/ a[1] < b[1]
    \/ a[1] = b[1] /\ a[2] < b[2]
    \/ a[1] = b[1] /\ a[2] = b[2] /\ a[3] < b[3]
    \/ a[1] = b[1] /\ a[2] = b[2] /\ a[3] = b[3] /\ a[4] <= b[4]

TheOne(S) == CHOOSE x \in S : TRUE

\* in t the checksum update, a save and the archive come in that order
\* after every interface, GUI and version statement
ChecksumSaveArchive(t) ==
    LET U == IndicesOf(t, "ipx::update_checksums")
        A == IndicesOf(t, "proc_archive_ip")
    IN /\ Cardinality(U) = 1
       /\ Cardinality(A) = 1
       /\ \E s \in IndicesOf(t, "ipx::save_core") : TheOne(U) < s /\ s < TheOne(A)
       /\ \A i \in 1..Len(t) :
              (IsInterfaceStmt(t[i]) \/ t[i].cmd = "proc_set_version") =>
                  i < TheOne(U)

\* C9 as stated: checksum update, save and archive follow every interface,
\* GUI and version statement in that order, and the archive is the last
\* statement of the script.
C9_ArchiveIsLast ==
    ScriptWritten =>
        LET t == package.tcl[1]
        IN /\ ChecksumSaveArchive(t)
           /\ t[Len(t)].cmd = "proc_archive_ip"

\* C9: checksum update, save and archive follow every interface, GUI and
\* version statement in that order, and the archive is followed only by
\* close_project and exit.
C9_ArchiveThenClose ==
    ScriptWritten =>
        LET t == package.tcl[1]
            a == TheOne(IndicesOf(t, "proc_archive_ip"))
        IN /\ ChecksumSaveArchive(t)
           /\ \A i \in (a + 1)..Len(t) : t[i].cmd \in {"close_project", "exit"}

\* the run is over and its script archives the core
C9_Witness ==
    /\ pc = "done"
    /\ ScriptWritten
    /\ IndicesOf(package.tcl[1], "proc_archive_ip") # {}
    /\ package.tcl[1][Len(package.tcl[1])].cmd = "exit"

\* C10 as stated: one proc_set_version statement, after every interface and
\* GUI statement, and no other statement sets a property it sets.
C10_OnlyStampSetsItsProperties ==
    ScriptWritten =>
        LET t == package.tcl[1]
            v == TheOne(IndicesOf(t, "proc_set_version"))
        IN /\ Cardinality(IndicesOf(t, "proc_set_version")) = 1
           /\ \A i \in 1..Len(t) : IsInterfaceStmt(t[i]) => i < v
           /\ \A i \in 1..Len(t) :
                  i # v => CoreProps(t[i]) \cap CoreProps(t[v]) = {}

\* C10: one proc_set_version statement, after every interface and GUI
\* statement; the only other statement that sets a property it sets is the
\* set_property of the core name to the build name, which comes before it.
C10_StampOverridesName ==
    ScriptWritten =>
        LET t == package.tcl[1]
            v == TheOne(IndicesOf(t, "proc_set_version"))
        IN /\ Cardinality(IndicesOf(t, "proc_set_version")) = 1
           /\ \A i \in 1..Len(t) : IsInterfaceStmt(t[i]) => i < v
           /\ \A i \in 1..Len(t) :
                  (i # v /\ CoreProps(t[i]) \cap CoreProps(t[v]) # {}) =>
                      /\ i < v
                      /\ t[i] = Stmt("set_property",
                                     <<"name", BuildName(self), CurrentCore>>)

\* the run is over and its script sets the core name before the stamping
C10_Witness ==
    /\ pc = "done"
    /\ ScriptWritten
    /\ \E i, v \in 1..Len(package.tcl[1]) :
           /\ i < v
           /\ package.tcl[1][v].cmd = "proc_set_version"
           /\ CoreProps(package.tcl[1][i]) = {"name"}

(***************************************************************************)
(* Two runs on the same command line                                       *)
(***************************************************************************)
\* both runs have built their script
BothScripts == tcl # <<>> /\ run2.tcl # <<>>

InvalidWidths(s) ==
    \/ s.address_width <= 0
    \/ s.input_width <= 0
    \/ s.output_width <= 0
    \/ s.user_width <= 0
    \/ s.input_width % 8 # 0
    \/ s.output_width % 8 # 0

NoExplicitArguments ==
    /\ argv.input_width = <<>>
    /\ argv.output_width = <<>>
    /\ argv.user_width = <<>>
    /\ ~argv.reverse

DefaultParameters ==
    [address_width |-> 64, input_width |-> 128, output_width |-> 64,
     user_width |-> 0, reverse |-> FALSE]

\* no directory has been cleared and nothing has been written
NothingTouched ==
    /\ pc \in {"main", "failed", "exited"}
    /\ package \in {NoPackage, StalePackage}
    /\ interfaces \in {NoInterfaces, StaleInterfaces}

C13_ExitStatusReflectsTool ==
    (pc = "exited" /\ vivado_log # <<>>) =>
        /\ Len(vivado_log) = 1
        /\ exit_code = <<0>> <=> vivado_log[1] = 0

\* the package directory as one complete run leaves it for the tool
PackageOfThisRun ==
    /\ build_v # <<>>
    /\ build_xdc # <<>>
    /\ package = [exists |-> TRUE, stale |-> FALSE, ila |-> TRUE,
                  v |-> <<netlist_post_processing(self, build_v[1])>>,
                  xdc |-> <<constraints_post_processing(build_xdc[1])>>,
                  tcl |-> <<PackagerTcl(BuildName(self))>>]

\* C14: in a packaging run the directory is cleared and recreated, then the
\* netlist and the constraints are rewritten into it, then the script is
\* written, then the tool is invoked: the tool runs at most once, once in a
\* run that completes, and only on a directory that holds the rewritten
\* netlist, the rewritten constraints and the script of this run and
\* nothing of an earlier run
C14_StepsInOrder ==
    /\ Len(vivado_log) <= 1
    /\ (pc \in {"done", "exited"} /\ argv.package /\ error = "none") =>
          Len(vivado_log) = 1
    /\ pc \in {"cp", "netlist", "constraints", "write", "vivado"} =>
          package.exists /\ ~package.stale
    /\ pc \in {"main", "if_rmtree", "if_makedirs", "if_write", "if_vivado",
                "rmtree", "makedirs", "cp", "netlist"} => package.v = <<>>
    /\ package.v # <<>> => package.exists /\ ~package.stale /\ package.ila
    /\ package.xdc # <<>> => package.v # <<>>
    /\ package.tcl # <<>> => package.xdc # <<>>
    /\ pc \in {"constraints", "write", "vivado"} => package.v # <<>>
    /\ pc \in {"write", "vivado"} => package.xdc # <<>>
    /\ pc \in {"rmtree", "makedirs", "cp", "netlist", "constraints", "write"} =>
          package.tcl = <<>> /\ vivado_log = <<>>
    /\ (pc = "vivado" \/ vivado_log # <<>>) => PackageOfThisRun

\* the tool is about to run on the complete directory of this run
C14_Witness ==
    /\ pc = "vivado"
    /\ vivado_log = <<>>
    /\ PackageOfThisRun
    /\ HasPortListEnd(build_v[1])

(***************************************************************************)
(* Two runs on one package directory                                       *)
(***************************************************************************)
\* a run at position p has written a file and not yet invoked the tool,
\* and the file is gone
Lost(p) ==
    \/ p \in {"constraints", "write", "vivado"} /\ package.v = <<>>
    \/ p \in {"write", "vivado"} /\ package.xdc = <<>>
    \/ p = "vivado" /\ package.tcl = <<>>

\* os.makedirs found the directory the other run had just created
RecreateFails == error = "FileExistsError" \/ run2.error = "FileExistsError"

\* C15: two packaging runs for the same build name race on the package
\* directory unless they are serialised: when the second run starts after
\* the first has exited, no run loses a file it wrote before it invokes the
\* tool and no directory recreation fails; both can happen otherwise
C15_SerialRunsDoNotRace ==
    run2.serial => ~(Lost(pc) \/ Lost(run2.pc) \/ RecreateFails)

\* the runs overlap and the first run is about to invoke the tool on a
\* directory the clear of the second run has emptied
C15_Witness ==
    /\ ~run2.serial
    /\ pc = "vivado"
    /\ Lost(pc)
    /\ run2.pc = "makedirs"

\* the runs overlap and the recreation of the directory fails
C15_WitnessRecreate == ~run2.serial /\ RecreateFails

(***************************************************************************)
(* Procedures of the scripts                                               *)
(***************************************************************************)
CalledProcedures ==
    {"proc_add_ip_files", "proc_set_device_family", "proc_add_bus",
     "proc_add_port_map", "proc_add_bus_clock", "proc_declare_interrupt",
     "proc_set_version", "proc_archive_ip", "proc_define_interface",
     "proc_define_interface_port"}

\* the definition of procedure name stands before statement i of script t
DefinedBefore(t, i, name) == \E j \in 1..(i - 1) : t[j] = ProcDef(name)

\* every call of a procedure follows its definition (proc_add_bus calls
\* proc_add_port_map once for each pair of its port map), and no procedure
\* is defined after the project is created
ProceduresDefinedFirst(t) ==
    /\ \A i \in 1..Len(t) :
          /\ t[i].cmd \in CalledProcedures => DefinedBefore(t, i, t[i].cmd)
          /\ t[i].maps # <<>> => DefinedBefore(t, i, "proc_add_port_map")
    /\ \A c \in IndicesOf(t, "create_project"), j \in IndicesOf(t, "proc") : j < c

\* the procedures script t calls
ProceduresCalledIn(t) ==
    { t[i].cmd : i \in { k \in 1..Len(t) : t[k].cmd \in CalledProcedures } } \cup
    { "proc_add_port_map" : i \in { k \in 1..Len(t) : t[k].maps # <<>> } }

\* C16: in the scripts written by generate_package and generate_interface
\* every statement that calls a procedure is preceded by the definition of
\* that procedure, and all procedure definitions precede project creation
C16_ProceduresDefinedBeforeUse ==
    /\ package.tcl # <<>> => ProceduresDefinedFirst(package.tcl[1])
    /\ interfaces.tcl # <<>> => ProceduresDefinedFirst(interfaces.tcl[1])

\* both scripts are on disk and between them they call every procedure
C16_Witness ==
    /\ package.tcl # <<>>
    /\ interfaces.tcl # <<>>
    /\ ProceduresCalledIn(package.tcl[1]) \cup ProceduresCalledIn(interfaces.tcl[1])
          = CalledProcedures
    /\ IndicesOf(package.tcl[1], "create_project") # {}

(***************************************************************************)
(* Clock bindings                                                          *)
(***************************************************************************)
\* the interfaces of a type that the procedure added to the core
CoreInterfaces(type) == { i \in 1..Len(core) : core[i].type = type }

\* C17: for every clock binding the reset handling depends on the reset
\* signal name only: an empty name gives no reset interface and no reset
\* association; a non-empty name gives a reset interface whose polarity is
\* ACTIVE_LOW exactly when the last character of the name is n or N and
\* ACTIVE_HIGH otherwise, so axis_rst and axilite_rst are ACTIVE_HIGH
C17_ResetPolarity ==
    pc = "clock_done" =>
        /\ Cardinality(CoreInterfaces("clock")) = 1
        /\ \A i \in CoreInterfaces("clock") :
              core[i].ASSOCIATED_RESET =
                  IF binding.reset = <<>> THEN <<>> ELSE <<binding.reset>>
        /\ binding.reset = <<>> => CoreInterfaces("reset") = {}
        /\ binding.reset # <<>> =>
              /\ Cardinality(CoreInterfaces("reset")) = 1
              /\ \A i \in CoreInterfaces("reset") :
                    /\ core[i].physical_name = binding.reset
                    /\ core[i].POLARITY = "ACTIVE_LOW" <=>
                          binding.reset[Len(binding.reset)] \in {"n", "N"}
                    /\ core[i].POLARITY = "ACTIVE_HIGH" <=>
                          binding.reset[Len(binding.reset)] \notin {"n", "N"}
        /\ binding \in CatalogBindings =>
              /\ CoreInterfaces("reset") # {}
              /\ \A i \in CoreInterfaces("reset") : core[i].POLARITY = "ACTIVE_HIGH"

\* a reset name that ends in a capital N has been declared ACTIVE_LOW
C17_Witness ==
    /\ pc = "clock_done"
    /\ binding.reset # <<>>
    /\ binding.reset[Len(binding.reset)] = "N"
    /\ \E i \in CoreInterfaces("reset") : core[i].POLARITY = "ACTIVE_LOW"

(***************************************************************************)
(* Frame of the netlist post-processing                                    *)
(***************************************************************************)
\* line is none of the parameter lines this run injects
NotInjected(line) ==
    \A n \in 1..Len(InjectedLines(self)) : line # InjectedLines(self)[n]

\* C18: the netlist post-processing only adds lines: the output without the
\* injected parameter lines is the input, line for line and in order, and
\* with no end-of-port-list line in the input the output equals the input
C18_OnlyAddsLines ==
    NetlistDone =>
        /\ SelectSeq(package.v[1], NotInjected) = build_v[1]
        /\ ~HasPortListEnd(build_v[1]) => package.v[1] = build_v[1]

\* a netlist with lines before and after its end-of-port-list line has
\* been rewritten and the output differs from it
C18_Witness ==
    /\ NetlistDone
    /\ Len(build_v[1]) >= 3
    /\ IsPortListEnd(build_v[1][2])
    /\ package.v[1] # build_v[1]

\* a netlist without an end-of-port-list line has been rewritten
C18_WitnessNoMarker ==
    /\ NetlistDone
    /\ build_v[1] # <<>>
    /\ ~HasPortListEnd(build_v[1])

(***************************************************************************)
(* The wishbone interface                                                  *)
(***************************************************************************)
\* the names of the ports that script t declares by proc_define_interface_port
DeclaredPorts(t) ==
    { t[i].args[1] : i \in IndicesOf(t, "proc_define_interface_port") }

\* the pairs <<physical name, logical name>> of port map maps whose logical
\* name is port
MappedTo(maps, port) == { i \in 1..Len(maps) : maps[i][2] = port }

\* C19: every logical port name in the port map of the wishbone bus
\* interface declared in the packaging script is the name of a port
\* declared for the wishbone interface definition, and every declared port
\* is mapped by exactly one physical port
C19_PortMapMatchesDeclaration ==
    (package.tcl # <<>> /\ interfaces.tcl # <<>>) =>
        \A b \in IndicesOf(package.tcl[1], "proc_add_bus") :
            LET maps == package.tcl[1][b].maps
                ports == DeclaredPorts(interfaces.tcl[1])
            IN /\ \A i \in 1..Len(maps) : maps[i][2] \in ports
               /\ \A p \in ports : Cardinality(MappedTo(maps, p)) = 1

====
